---- MODULE Spec2Model ----
(***************************************************************************)
(* The catalog API of app.py as a state machine.  The durable state is the *)
(* two tables (users, products); the server clock stamps products and      *)
(* expires tokens.  Every route is its decorator (jwt_required) followed   *)
(* by its function body, a pure handler from (tables, clock, request) to   *)
(* (response, tables), and an action that applies it.  Tokens are          *)
(* stateless JWTs: the server keeps none, so a request may carry any token *)
(* the server has signed for a stored user up to the present time, a token *)
(* with a signature the server did not make, or no token.                  *)
(***************************************************************************)
EXTENDS Integers, Sequences, FiniteSets, TLC

VARIABLES users, products, now, pending, resp, deleted

vars == <<users, products, now, pending, resp, deleted>>

(* ------------------------------ bounds -------------------------------- *)

\* rows the users table may hold, the seeded admin included
MaxUsers == 3
\* rows the users table may hold when one client registers at a time
MaxSoloUsers == 2
\* largest product id the model lets the table assign
MaxProductId == 1
\* last tick of the server clock
MaxTime == 1
\* register requests that may be between their lookup and their commit
MaxPending == 2

(* ----------------------------- constants ------------------------------ *)

\* JWT_ACCESS_TOKEN_EXPIRES, in clock ticks
AccessTTL == 1
\* lifetime of a refresh token, in clock ticks: longer than an access token's
RefreshTTL == 2

ROLES == [admin |-> "admin", user |-> "user"]

\* ROLES.get(key): None for a key ROLES does not hold
None == "None"
ROLES_get(key) == IF key \in DOMAIN ROLES THEN ROLES[key] ELSE None

(* --------------------------- request bodies --------------------------- *)

\* A JSON body is a record of its keys' values and the set of keys it holds;
\* a key it does not hold carries a fixed filler that no handler reads.
Has(data, key) == key \in data.keys
Get(data, key, default) == IF Has(data, key) THEN data[key] ELSE default

Usernames == {"admin", "alice", "bob"}
Emails == {"admin@example.com", "a@x.com", "b@x.com"}
Passwords == {"admin123", "pw123"}
NewPasswords == {"", "pw123"}
RoleInputs == {"user", "admin", "root"}

RegisterKeys == {"username", "email", "password", "role"}
RegisterBodies ==
    {d \in [keys : SUBSET RegisterKeys, username : Usernames,
            email : Emails, password : NewPasswords, role : RoleInputs] :
        /\ ~Has(d, "username") => d.username = "admin"
        /\ ~Has(d, "email") => d.email = "a@x.com"
        /\ ~Has(d, "password") => d.password = "pw123"
        /\ ~Has(d, "role") => d.role = "user"}

\* the bodies of one client, who registers as alice or tries admin's name
SoloBodies ==
    {d \in RegisterBodies : d.username # "bob" /\ d.email # "b@x.com"}

LoginKeys == {"username", "password"}
LoginBodies ==
    {d \in [keys : SUBSET LoginKeys, username : Usernames,
            password : Passwords] :
        /\ ~Has(d, "username") => d.username = "admin"
        /\ ~Has(d, "password") => d.password = "pw123"}

Names == {"", "Widget"}
Descriptions == {"text"}
Prices == {-1, 5}
ImageUrls == {"img"}
\* a body may also carry a key no handler reads
OwnerInputs == {2}

ProductFields == {"name", "description", "price", "product_image_url"}
ProductKeys == ProductFields \cup {"created_by"}
ProductBodies ==
    {d \in [keys : SUBSET ProductKeys, name : Names, description : Descriptions,
            price : Prices, product_image_url : ImageUrls, created_by : OwnerInputs] :
        /\ ~Has(d, "name") => d.name = ""
        /\ ~Has(d, "price") => d.price = 5
        /\ Has(d, "created_by") => d.keys \in {{"created_by"}, ProductKeys}}

ProductIds == 1..(MaxProductId + 1)

(* ------------------------------- tokens ------------------------------- *)

\* A bearer token: its type claim, its identity claim (a username), its
\* expiry, and whether its signature is the server's.
NoToken == [kind |-> "none", identity |-> None, exp |-> 0, sig |-> "none"]

TTL(kind) == IF kind = "access" THEN AccessTTL ELSE RefreshTTL

create_token(kind, identity, at) ==
    [kind |-> kind, identity |-> identity, exp |-> at + TTL(kind), sig |-> "server"]

create_access_token(identity, at) == create_token("access", identity, at)

create_refresh_token(identity, at) == create_token("refresh", identity, at)

Range(s) == {s[i] : i \in DOMAIN s}

\* The tokens login and refresh have been able to sign up to the present:
\* one of either type for every stored user and every past time.  The
\* server's verdict on a token reads its signature, expiry and type only, and
\* the handlers read its identity only, so a token dated before its user
\* registered stands for a later token of the same user (unexpired) or for
\* any expired token (expired).
SignedTokens(us, t) ==
    {create_token(k, u.username, at) :
        k \in {"access", "refresh"}, u \in Range(us), at \in 0..t}

\* Tokens signed with another key: any claims, never the server's signature.
ForgedTokens(us, t) ==
    {[kind |-> k, identity |-> "admin", exp |-> t + 1, sig |-> "other"] :
        k \in {"access", "refresh"}}

Tokens(us, t) == {NoToken} \cup SignedTokens(us, t) \cup ForgedTokens(us, t)

\* jwt_required(optional, refresh): the decorator's verdict on the request's
\* token at time t.  A missing token is 401 unless optional; a bad signature
\* is 422; an expired token is 401; a token of the other type is 422.  Only
\* the missing token is excused by optional.
Accept(identity) == [ok |-> TRUE, status |-> 200, identity |-> identity]
Reject(status) == [ok |-> FALSE, status |-> status, identity |-> None]

\* the decorator without its check of the token's type
jwt_required_any_type(tok, t, optional, refresh) ==
    IF tok = NoToken THEN (IF optional THEN Accept(None) ELSE Reject(401))
    ELSE IF tok.sig # "server" THEN Reject(422)
    ELSE IF tok.exp <= t THEN Reject(401)
    ELSE Accept(tok.identity)

jwt_required(tok, t, optional, refresh) ==
    IF tok = NoToken THEN (IF optional THEN Accept(None) ELSE Reject(401))
    ELSE IF tok.sig # "server" THEN Reject(422)
    ELSE IF tok.exp <= t THEN Reject(401)
    ELSE IF tok.kind # (IF refresh THEN "refresh" ELSE "access") THEN Reject(422)
    ELSE Accept(tok.identity)

(* ------------------------------- users -------------------------------- *)

generate_password_hash(password) == <<"pbkdf2", password>>

\* a verification that accepts every password
check_password_hash_any(hash, password) == TRUE

check_password_hash(hash, password) == hash = generate_password_hash(password)

\* User(...): the row a committed session inserts.  A role of None is left
\* to the column default.
User(id, username, email, password, role) ==
    [id |-> id, username |-> username, email |-> email,
     password_hash |-> generate_password_hash(password),
     role |-> IF role = None THEN ROLES["user"] ELSE role]

\* User.query.filter_by(username=...).first(): the rows that match
by_username(us, username) == {u \in Range(us) : u.username = username}

by_email(us, email) == {u \in Range(us) : u.email = email}

first(rows) == CHOOSE r \in rows : TRUE

\* the users table without its unique constraints
UniqueViolation_unchecked(us, row) == FALSE

\* the unique=True constraints of the users table
UniqueViolation(us, row) ==
    \/ by_username(us, row.username) # {}
    \/ by_email(us, row.email) # {}

(* ------------------------------ responses ----------------------------- *)

\* a response: its status and the fields of its JSON body the model follows
Response(op, status) ==
    [op |-> op, status |-> status, access_token |-> NoToken,
     refresh_token |-> NoToken, role |-> None, id |-> 0]

\* what a handler returns: the response and the tables as it leaves them
Result(r, us, ps) == [resp |-> r, users |-> us, products |-> ps]

\* the decorator's own answer, the function body not entered
Rejected(op, auth, us, ps) == Result(Response(op, auth.status), us, ps)

(* ------------------------------ register ------------------------------ *)

RequiredFields == <<"username", "email", "password">>

\* the first required field that is missing or empty, 0 when there is none
MissingField(data) ==
    LET bad == {i \in DOMAIN RequiredFields :
                  ~Has(data, RequiredFields[i]) \/ data[RequiredFields[i]] = ""}
    IN IF bad = {} THEN 0 ELSE CHOOSE i \in bad : \A j \in bad : i <= j

\* register up to its two lookups: 400 when a field is missing or the
\* username or email is found, 0 when the handler goes on to insert
register_check(us, data) ==
    IF MissingField(data) # 0 THEN 400
    ELSE IF by_username(us, data.username) # {} THEN 400
    ELSE IF by_email(us, data.email) # {} THEN 400
    ELSE 0

\* register from User(...) to the commit: the insert fails on the unique
\* constraints (an IntegrityError nobody catches: 500) or adds the row
register_commit(us, ps, data) ==
    LET row == User(Len(us) + 1, data.username, data.email, data.password,
                    ROLES_get(Get(data, "role", "user")))
    IN IF UniqueViolation(us, row)
       THEN Result(Response("register", 500), us, ps)
       ELSE Result(Response("register", 201), Append(us, row), ps)

register(us, ps, data) ==
    IF register_check(us, data) # 0
    THEN Result(Response("register", register_check(us, data)), us, ps)
    ELSE register_commit(us, ps, data)

(* ------------------------------- login -------------------------------- *)

login(us, ps, t, data) ==
    LET found == by_username(us, Get(data, "username", None))
    IN IF found = {} THEN Result(Response("login", 401), us, ps)
       \* check_password(None): hashing no password raises
       ELSE IF ~Has(data, "password") THEN Result(Response("login", 500), us, ps)
       ELSE IF ~check_password_hash(first(found).password_hash, data.password)
       THEN Result(Response("login", 401), us, ps)
       ELSE Result([Response("login", 200) EXCEPT
                      !.access_token = create_access_token(first(found).username, t),
                      !.refresh_token = create_refresh_token(first(found).username, t),
                      !.role = first(found).role,
                      !.id = first(found).id], us, ps)

(* ------------------------------ refresh ------------------------------- *)

\* the body of refresh, entered with the identity of an accepted refresh token
refresh(us, ps, t, identity) ==
    Result([Response("refresh", 200) EXCEPT
              !.access_token = create_access_token(identity, t)], us, ps)

(* ------------------------------ products ------------------------------ *)

Products(name, description, price, product_image_url, created_by, at) ==
    [name |-> name, description |-> description, price |-> price,
     product_image_url |-> product_image_url, created_by |-> created_by,
     created_at |-> at, updated_at |-> at]

Max(S) == CHOOSE x \in S : \A y \in S : y <= x

\* the integer primary key of a new row: one past the largest id in the table
NextProductId(ps) == IF DOMAIN ps = {} THEN 1 ELSE Max(DOMAIN ps) + 1

Insert(ps, id, row) == [i \in DOMAIN ps \cup {id} |-> IF i = id THEN row ELSE ps[i]]

Delete(ps, id) == [i \in DOMAIN ps \ {id} |-> ps[i]]

get_products(us, ps) == Result(Response("get_products", 200), us, ps)

get_product(us, ps, product_id) ==
    IF product_id \notin DOMAIN ps
    THEN Result(Response("get_product", 404), us, ps)
    ELSE Result([Response("get_product", 200) EXCEPT !.id = product_id], us, ps)

create_product(us, ps, t, identity, data) ==
    LET found == by_username(us, identity)
    \* user.id of no user, data['name'], data['price'] of a missing key: raised
    IN IF found = {} \/ ~Has(data, "name") \/ ~Has(data, "price")
       THEN Result(Response("create_product", 500), us, ps)
       ELSE Result([Response("create_product", 201) EXCEPT !.id = NextProductId(ps)],
                   us,
                   Insert(ps, NextProductId(ps),
                          Products(data.name, Get(data, "description", ""), data.price,
                                   Get(data, "product_image_url", ""),
                                   first(found).id, t)))

\* the test with the admin's exemption left out
NotAuthorized_owner_only(product, user) == product.created_by # user.id

\* the creator-or-admin test of update_product and delete_product
NotAuthorized(product, user) ==
    product.created_by # user.id /\ user.role # ROLES["admin"]

\* the assignments with every column of the body copied, the owner too
Assigned_every_key(product, data) ==
    [product EXCEPT
        !.name = Get(data, "name", product.name),
        !.description = Get(data, "description", product.description),
        !.price = Get(data, "price", product.price),
        !.product_image_url = Get(data, "product_image_url", product.product_image_url),
        !.created_by = Get(data, "created_by", product.created_by)]

\* the assignments with create's defaults in place of the stored values
Assigned_defaults(product, data) ==
    [product EXCEPT
        !.name = Get(data, "name", product.name),
        !.description = Get(data, "description", ""),
        !.price = Get(data, "price", product.price),
        !.product_image_url = Get(data, "product_image_url", "")]

\* the four assignments of update_product
Assigned(product, data) ==
    [product EXCEPT
        !.name = Get(data, "name", product.name),
        !.description = Get(data, "description", product.description),
        !.price = Get(data, "price", product.price),
        !.product_image_url = Get(data, "product_image_url", product.product_image_url)]

\* the commit of a loaded row: an UPDATE is sent, and onupdate stamps
\* updated_at, only when some column's value differs from the loaded one
Committed(old, new, t) ==
    IF new = old THEN old ELSE [new EXCEPT !.updated_at = t]

\* update_product with the assignments committed ahead of the ownership test
update_product_assign_first(us, ps, t, identity, product_id, data) ==
    LET found == by_username(us, identity)
    IN IF product_id \notin DOMAIN ps
       THEN Result(Response("update_product", 404), us, ps)
       ELSE IF found = {} THEN Result(Response("update_product", 500), us, ps)
       ELSE Result([Response("update_product",
                             IF NotAuthorized(ps[product_id], first(found))
                             THEN 403 ELSE 200) EXCEPT !.id = product_id], us,
                   [ps EXCEPT ![product_id] =
                       Committed(ps[product_id], Assigned(ps[product_id], data), t)])

update_product(us, ps, t, identity, product_id, data) ==
    LET found == by_username(us, identity)
    IN IF product_id \notin DOMAIN ps
       THEN Result(Response("update_product", 404), us, ps)
       ELSE IF found = {} THEN Result(Response("update_product", 500), us, ps)
       ELSE IF NotAuthorized(ps[product_id], first(found))
       THEN Result(Response("update_product", 403), us, ps)
       ELSE Result([Response("update_product", 200) EXCEPT !.id = product_id], us,
                   [ps EXCEPT ![product_id] =
                       Committed(ps[product_id], Assigned(ps[product_id], data), t)])

delete_product(us, ps, t, identity, product_id) ==
    LET found == by_username(us, identity)
    IN IF product_id \notin DOMAIN ps
       THEN Result(Response("delete_product", 404), us, ps)
       ELSE IF found = {} THEN Result(Response("delete_product", 500), us, ps)
       ELSE IF NotAuthorized(ps[product_id], first(found))
       THEN Result(Response("delete_product", 403), us, ps)
       ELSE Result([Response("delete_product", 200) EXCEPT !.id = product_id], us,
                   Delete(ps, product_id))

(* ------------------------------ the machine --------------------------- *)

\* db.create_all() and the admin seed: one admin, no product, clock at 0,
\* no request answered yet, no product deleted yet
Init ==
    /\ users = <<User(1, "admin", "admin@example.com", "admin123", ROLES["admin"])>>
    /\ products = << >>
    /\ now = 0
    /\ pending = {}
    /\ resp = [op |-> "none", status |-> 0]
    /\ deleted = {}

\* a request answered: the tables as the handler leaves them, the
\* response's route and status kept for inspection, and the ids of the rows
\* it removed from the products table added to the record of deleted ids
Apply(r) ==
    /\ users' = r.users
    /\ products' = r.products
    /\ resp' = [op |-> r.resp.op, status |-> r.resp.status]
    /\ deleted' = deleted \cup (DOMAIN products \ DOMAIN r.products)
    /\ UNCHANGED <<now, pending>>

Register ==
    \E data \in SoloBodies :
        /\ Len(users) < MaxSoloUsers
             \/ register(users, products, data).resp.status # 201
        /\ Apply(register(users, products, data))

Login == \E data \in LoginBodies : Apply(login(users, products, now, data))

Refresh ==
    \E tok \in Tokens(users, now) :
        LET auth == jwt_required(tok, now, FALSE, TRUE)
        IN IF ~auth.ok THEN Apply(Rejected("refresh", auth, users, products))
           ELSE Apply(refresh(users, products, now, auth.identity))

GetProducts ==
    \E tok \in Tokens(users, now) :
        LET auth == jwt_required(tok, now, TRUE, FALSE)
        IN IF ~auth.ok THEN Apply(Rejected("get_products", auth, users, products))
           ELSE Apply(get_products(users, products))

GetProduct ==
    \E tok \in Tokens(users, now) :
        LET auth == jwt_required(tok, now, TRUE, FALSE)
        IN IF ~auth.ok THEN Apply(Rejected("get_product", auth, users, products))
           ELSE \E id \in ProductIds : Apply(get_product(users, products, id))

CreateProduct ==
    \E tok \in Tokens(users, now) :
        LET auth == jwt_required(tok, now, FALSE, FALSE)
        IN IF ~auth.ok THEN Apply(Rejected("create_product", auth, users, products))
           ELSE \E data \in ProductBodies :
                  /\ NextProductId(products) <= MaxProductId
                       \/ create_product(users, products, now, auth.identity,
                                         data).resp.status # 201
                  /\ Apply(create_product(users, products, now, auth.identity, data))

UpdateProduct ==
    \E tok \in Tokens(users, now) :
        LET auth == jwt_required(tok, now, FALSE, FALSE)
        IN IF ~auth.ok THEN Apply(Rejected("update_product", auth, users, products))
           ELSE \E id \in ProductIds, data \in ProductBodies :
                  Apply(update_product(users, products, now, auth.identity, id, data))

DeleteProduct ==
    \E tok \in Tokens(users, now) :
        LET auth == jwt_required(tok, now, FALSE, FALSE)
        IN IF ~auth.ok THEN Apply(Rejected("delete_product", auth, users, products))
           ELSE \E id \in ProductIds :
                  Apply(delete_product(users, products, now, auth.identity, id))

\* the server clock moves on
Tick ==
    /\ now < MaxTime
    /\ now' = now + 1
    /\ UNCHANGED <<users, products, pending, resp, deleted>>

Next ==
    \/ Register
    \/ Login
    \/ Refresh
    \/ GetProducts
    \/ GetProduct
    \/ CreateProduct
    \/ UpdateProduct
    \/ DeleteProduct
    \/ Tick

Spec == Init /\ [][Next]_vars

\* Register requests in flight together: each does its lookups, and later,
\* after any other request's step, its insert and commit.
RegisterLookup ==
    \E data \in RegisterBodies :
        IF register_check(users, data) # 0
        THEN /\ resp' = [op |-> "register", status |-> register_check(users, data)]
             /\ UNCHANGED <<users, products, now, pending, deleted>>
        ELSE /\ Cardinality(pending) < MaxPending
             /\ data \notin pending
             /\ pending' = pending \cup {data}
             /\ UNCHANGED <<users, products, now, resp, deleted>>

RegisterCommit ==
    \E data \in pending :
        /\ Len(users) < MaxUsers
             \/ register_commit(users, products, data).resp.status # 201
        /\ users' = register_commit(users, products, data).users
        /\ resp' = [op |-> "register",
                    status |-> register_commit(users, products, data).resp.status]
        /\ pending' = pending \ {data}
        /\ UNCHANGED <<products, now, deleted>>

NextRegister == RegisterLookup \/ RegisterCommit

SpecRegister == Init /\ [][NextRegister]_vars

(* ------------------------- requests as a whole ------------------------ *)

\* a route: its decorator, then its function body with the token's identity
post_refresh(us, ps, t, tok) ==
    LET auth == jwt_required(tok, t, FALSE, TRUE)
    IN IF ~auth.ok THEN Rejected("refresh", auth, us, ps)
       ELSE refresh(us, ps, t, auth.identity)

get_products_route(us, ps, t, tok) ==
    LET auth == jwt_required(tok, t, TRUE, FALSE)
    IN IF ~auth.ok THEN Rejected("get_products", auth, us, ps)
       ELSE get_products(us, ps)

get_product_route(us, ps, t, tok, product_id) ==
    LET auth == jwt_required(tok, t, TRUE, FALSE)
    IN IF ~auth.ok THEN Rejected("get_product", auth, us, ps)
       ELSE get_product(us, ps, product_id)

post_product(us, ps, t, tok, data) ==
    LET auth == jwt_required(tok, t, FALSE, FALSE)
    IN IF ~auth.ok THEN Rejected("create_product", auth, us, ps)
       ELSE create_product(us, ps, t, auth.identity, data)

put_product(us, ps, t, tok, product_id, data) ==
    LET auth == jwt_required(tok, t, FALSE, FALSE)
    IN IF ~auth.ok THEN Rejected("update_product", auth, us, ps)
       ELSE update_product(us, ps, t, auth.identity, product_id, data)

delete_product_route(us, ps, t, tok, product_id) ==
    LET auth == jwt_required(tok, t, FALSE, FALSE)
    IN IF ~auth.ok THEN Rejected("delete_product", auth, us, ps)
       ELSE delete_product(us, ps, t, auth.identity, product_id)

\* the unexpired access tokens the server has signed: the authenticated actors
AccessTokens == {tok \in SignedTokens(users, now) : tok.kind = "access" /\ tok.exp > now}

\* the unexpired refresh tokens the server has signed
RefreshTokens == {tok \in SignedTokens(users, now) : tok.kind = "refresh" /\ tok.exp > now}

(* ------------------------------- claims ------------------------------- *)

\* the actor a token names: the stored user whose username is its identity
Actor(tok) == first(by_username(users, tok.identity))

MayModify(user, product) ==
    user.role = "admin" \/ user.id = product.created_by

\* C1: for every authenticated actor and every stored product, a PUT (with
\* any body) or a DELETE made with the actor's access token is answered 200
\* and carried out exactly when the actor is an admin or the product's
\* creator; otherwise it is answered 403 and the product is left as it was.
C1_OwnerOrAdminModifies ==
    \A tok \in AccessTokens, id \in DOMAIN products :
        /\ by_username(users, tok.identity) # {}
        /\ LET del == delete_product_route(users, products, now, tok, id)
               allowed == MayModify(Actor(tok), products[id])
           IN /\ del.resp.status = 200 <=> allowed
              /\ allowed => id \notin DOMAIN del.products
              /\ ~allowed => del.resp.status = 403 /\ del.products = products
              /\ \A data \in ProductBodies :
                    LET put == put_product(users, products, now, tok, id, data)
                    IN /\ put.resp.status = 200 <=> allowed
                       /\ allowed =>
                            put.products[id] =
                               Committed(products[id], Assigned(products[id], data), now)
                       /\ ~allowed =>
                            put.resp.status = 403 /\ put.products = products

\* a regular user's DELETE of the admin's product was answered 403
C1_Witness ==
    /\ resp = [op |-> "delete_product", status |-> 403]
    /\ \E id \in DOMAIN products : products[id].created_by = 1
    /\ \E u \in Range(users) : u.role = "user"

\* C2: no two stored users share a username, and no two share an email,
\* however the lookups and commits of register requests interleave.
C2_UsernameAndEmailUnique ==
    \A i, j \in DOMAIN users :
        i # j => /\ users[i].username # users[j].username
                 /\ users[i].email # users[j].email

\* two registrations passed their lookups together; one committed and the
\* other's insert was refused by the table
C2_Witness ==
    /\ Len(users) >= 2
    /\ resp = [op |-> "register", status |-> 500]

\* the request's username or email is that of a stored user
Collides(us, data) ==
    \/ by_username(us, data.username) # {}
    \/ by_email(us, data.email) # {}

\* C3: a register request whose username or email is that of a stored user
\* is answered 400 and adds no user, also when it did its lookups before the
\* other request committed.
C3_DuplicateAnswered400 ==
    /\ \A data \in RegisterBodies :
          MissingField(data) = 0 /\ Collides(users, data) =>
             /\ register(users, products, data).resp.status = 400
             /\ register(users, products, data).users = users
    /\ \A data \in pending :
          Collides(users, data) =>
             /\ register_commit(users, products, data).resp.status = 400
             /\ register_commit(users, products, data).users = users

\* C4: every user that registration created has the role user: the seeded
\* admin is the only admin.
C4_RegistrationNeverMakesAdmin ==
    \A i \in DOMAIN users : i > 1 => users[i].role = ROLES["user"]

\* the responses that report an error of the caller
ErrorStatuses == {400, 401, 403, 404}

Untouched(r) == r.users = users /\ r.products = products

\* C5: a register, create, update or delete request that is answered 400,
\* 401, 403 or 404 leaves both tables exactly as they were, whatever token,
\* id and body it carries.
C5_ErrorLeavesTablesUnchanged ==
    /\ \A data \in RegisterBodies :
          LET r == register(users, products, data)
          IN r.resp.status \in ErrorStatuses => Untouched(r)
    /\ \A tok \in Tokens(users, now), data \in ProductBodies :
          /\ LET r == post_product(users, products, now, tok, data)
             IN r.resp.status \in ErrorStatuses => Untouched(r)
          /\ \A id \in ProductIds :
                LET r == put_product(users, products, now, tok, id, data)
                IN r.resp.status \in ErrorStatuses => Untouched(r)
    /\ \A tok \in Tokens(users, now), id \in ProductIds :
          LET r == delete_product_route(users, products, now, tok, id)
          IN r.resp.status \in ErrorStatuses => Untouched(r)

\* a PUT by a user who is neither the creator nor an admin was answered 403
C5_Witness ==
    /\ resp = [op |-> "update_product", status |-> 403]
    /\ products # << >>

\* C6: a created product's created_by is the id of the user the access
\* token names, and no update, by the creator or an admin and with any body
\* (one carrying a created_by key too), changes the created_by of a product.
C6_OwnerFixedAtCreation ==
    \A tok \in AccessTokens, data \in ProductBodies :
        /\ LET r == post_product(users, products, now, tok, data)
           IN r.resp.status = 201 =>
                /\ r.resp.id \in DOMAIN r.products \ DOMAIN products
                /\ r.products[r.resp.id].created_by = Actor(tok).id
                /\ \A id \in DOMAIN products : r.products[id] = products[id]
        /\ \A id \in DOMAIN products :
              LET r == put_product(users, products, now, tok, id, data)
              IN /\ id \in DOMAIN r.products
                 /\ r.products[id].created_by = products[id].created_by

\* a product that the regular user 2 created was updated at a later time
\* and still names user 2 as its creator
C6_Witness ==
    /\ resp = [op |-> "update_product", status |-> 200]
    /\ \E id \in DOMAIN products :
          /\ products[id].created_by = 2
          /\ products[id].updated_at > products[id].created_at
    /\ \A u \in Range(users) : u.id = 2 => u.role = "user"

C8_UpdateRefreshesUpdatedAt ==
    \A tok \in AccessTokens, id \in ProductIds, data \in ProductBodies :
        LET r == put_product(users, products, now, tok, id, data)
        IN r.resp.status = 200 => r.products[id].updated_at = now

\* C9: token types are not interchangeable.  An unexpired refresh token on
\* create, update or delete is rejected (401 or 422) and both tables stay as
\* they were; an unexpired access token on /api/refresh is rejected; an
\* unexpired refresh token on /api/refresh is answered 200 with an access
\* token, signed by the server, whose identity is the refresh token's.
Unauthorized == {401, 422}

C10_ReadsNeverRejected ==
    \A tok \in Tokens(users, now) :
        /\ get_products_route(users, products, now, tok).resp.status = 200
        /\ \A id \in DOMAIN products :
              get_product_route(users, products, now, tok, id).resp.status = 200

\* C11: the id of a deleted product never again resolves.  For every id that
\* a DELETE answered 200 has removed, in every later state and whatever
\* requests came between (creations too), the products table holds no row of
\* that id and GET /api/products/{id} without a token is answered 404.
C11_DeletedIdNeverResolves ==
    \A p \in deleted :
        /\ p \notin DOMAIN products
        /\ get_product_route(users, products, now, NoToken, p).resp.status = 404

\* the password a stored user was registered with
RegisteredPassword(user) == user.password_hash[2]

\* C12: a login is answered 200 exactly when its username is that of a
\* stored user and its password is the one that user was registered with.
\* The 200 response carries an access token and a refresh token, signed by
\* the server for that username and accepted where their type is asked for,
\* and the role stored for that user.  An unknown (or absent) username, and a
\* password other than the registered one, are answered 401 with no token.
\* No login changes a table.
C12_LoginIffCredentials ==
    \A data \in LoginBodies :
        LET r == login(users, products, now, data)
            found == by_username(users, Get(data, "username", None))
            right == /\ found # {}
                     /\ Has(data, "password")
                     /\ \A u \in found : RegisteredPassword(u) = data.password
        IN /\ Cardinality(found) <= 1
           /\ r.resp.status = 200 <=> right
           /\ right =>
                /\ r.resp.access_token.kind = "access"
                /\ r.resp.refresh_token.kind = "refresh"
                /\ r.resp.access_token.identity = data.username
                /\ r.resp.refresh_token.identity = data.username
                /\ jwt_required(r.resp.access_token, now, FALSE, FALSE).ok
                /\ jwt_required(r.resp.refresh_token, now, FALSE, TRUE).ok
                /\ \A u \in found : r.resp.role = u.role /\ r.resp.id = u.id
           /\ (found = {} \/ (Has(data, "password") /\ ~right)) =>
                /\ r.resp.status = 401
                /\ r.resp.access_token = NoToken
                /\ r.resp.refresh_token = NoToken
           /\ Untouched(r)

\* a login was answered 200 in a state where alice is registered, her
\* password logs her in and the admin's password does not
C12_Witness ==
    /\ resp = [op |-> "login", status |-> 200]
    /\ \E data \in LoginBodies :
          /\ data.username = "alice"
          /\ login(users, products, now, data).resp.status = 200
    /\ \E data \in LoginBodies :
          /\ data.keys = LoginKeys
          /\ data.username = "alice"
          /\ login(users, products, now, data).resp.status = 401

\* C13: in every reachable state every stored product has a non-empty name
\* and a price that is not negative, whatever bodies the creates and updates
\* of authenticated users carried.
C13_ProductsWellFormed ==
    \A id \in DOMAIN products :
        /\ products[id].name # ""
        /\ products[id].price >= 0

\* C14: a POST /api/products with an unexpired access token of a stored
\* user and a body that lacks name or lacks price is answered 400, and both
\* tables stay as they were.
C14_MissingFieldAnswered400 ==
    \A tok \in AccessTokens, data \in ProductBodies :
        ~Has(data, "name") \/ ~Has(data, "price") =>
            LET r == post_product(users, products, now, tok, data)
            IN r.resp.status = 400 /\ Untouched(r)

\* the token authenticates: an access token the server signed, not expired
Authenticates(tok, t) ==
    tok # NoToken /\ tok.sig = "server" /\ tok.kind = "access" /\ tok.exp > t

\* C15: a PUT or DELETE on /api/products/{id} is decided by the first step
\* that fails, in the order authenticate, load actor, load product,
\* authorize, mutate.  With no token or a token that does not authenticate
\* it is answered 401 whether or not the product exists; with a token that
\* authenticates and an id of no product it is answered 404 whatever the
\* actor's role; it is answered 403 exactly when the token authenticates,
\* the product exists and the actor is neither its creator nor an admin; and
\* a request not answered 200 leaves both tables as they were.
C15_FirstFailingStepDecides ==
    \A tok \in Tokens(users, now), id \in ProductIds, data \in ProductBodies :
        LET put == put_product(users, products, now, tok, id, data)
            del == delete_product_route(users, products, now, tok, id)
            refused == /\ Authenticates(tok, now)
                       /\ id \in DOMAIN products
                       /\ ~MayModify(Actor(tok), products[id])
        IN /\ ~Authenticates(tok, now) =>
                put.resp.status = 401 /\ del.resp.status = 401
           /\ Authenticates(tok, now) /\ id \notin DOMAIN products =>
                put.resp.status = 404 /\ del.resp.status = 404
           /\ put.resp.status = 403 <=> refused
           /\ del.resp.status = 403 <=> refused
           /\ put.resp.status # 200 => Untouched(put)
           /\ del.resp.status # 200 => Untouched(del)

====
